---- MODULE Spec2Model ----
(***************************************************************************)
(* Model of the mention-processing loop of the Venice X bot                *)
(* (src/bot.py, src/state.py, src/twitter_client.py, src/venice_api.py).    *)
(*                                                                         *)
(* The bot is single-threaded: run() calls process_mentions() and then     *)
(* state.save(), forever.  One poll cycle is modelled as PollStart (the    *)
(* gates and the mentions fetch), one ProcessTweet step per mention of     *)
(* the batch (oldest first), and PollEnd (timestamp update and save).      *)
(* The platform and the generative backend are the environment: each      *)
(* call's outcome is chosen with \E from the outcomes the code handles.    *)
(* Time is in seconds and advances only by the code's blocking sleeps.     *)
(***************************************************************************)
EXTENDS Integers, Sequences, FiniteSets, TLC

(***************************************************************************)
(* Bounds of the model.                                                    *)
(***************************************************************************)
NumMentions == 6      \* mention ids 1..NumMentions
MaxBatch == 2         \* mentions returned by one fetch
StartTime == 5000     \* time.time() when the bot is constructed
Horizon == 10         \* polls start only before StartTime + Horizon
MaxFaults == 1        \* platform failures answered with a back-off sleep
ResetDelay == 30      \* x-rate-limit-reset of a live throttle: now + ResetDelay
ChainLen == 5         \* length of the quote chain hanging off the root tweet
QuietHorizon == 3700  \* quiet feed: polls start only before StartTime + QuietHorizon
QuietFaults == 5      \* quiet feed: platform failures answered with a back-off sleep
BusyTime == 600       \* quiet feed: length of the busy period before it
CallSpread == 2       \* direct calls: made at StartTime - CallSpread .. StartTime + CallSpread

(***************************************************************************)
(* Program constants.                                                      *)
(***************************************************************************)
MIN_CHECK_INTERVAL == 90
MAX_REPLIES_PER_HOUR == 30
TWEET_PROCESSING_DELAY == 1
MAX_TWEET_AGE_MINUTES == 20
HOUR == 3600
RESET_BUFFER == 5
RATE_LIMIT_SLEEP_CAP == 900
ERROR_SLEEP_CAP == 300
MAX_BACKOFF == 16
CRITICAL_SLEEP == 60
MAX_DEPTH == 3
STANDARD_CHAR_LIMIT == 280
X_PREMIUM_CHAR_LIMIT == 25000

None == "None"

Min(a, b) == IF a <= b THEN a ELSE b

(***************************************************************************)
(* The platform's data.  Mentions 1..NumMentions; mention 1 is the root of *)
(* conversation 1 and quotes the first tweet of a quote chain; mentions 2  *)
(* and 3 are replies in conversation 1; every other mention is the root    *)
(* of its own conversation.                                                *)
(***************************************************************************)
Mentions == 1..NumMentions
BotId == "bot"
RetryHorizon == 300   \* a cycle of the retry scenario starts before StartTime + RetryHorizon
Outage == 100         \* backend and post can fail before StartTime + Outage only
TextOver == 40        \* how far over the limit the longest reply text is
QuoteBase == 100
ChainTweets == (QuoteBase + 1)..(QuoteBase + ChainLen)

\* three more tweets, outside every mention's context: one that quotes itself
\* and two that quote each other
SelfQuote == QuoteBase + ChainLen + 1
CycleTweets == {SelfQuote + 1, SelfQuote + 2}

TweetAuthor(m) ==
    CASE m \in {1, 3} -> "a1"
      [] m = 4 -> BotId
      [] OTHER -> "a2"

TweetConversation(m) == IF m \in {1, 2, 3} THEN 1 ELSE m

\* created_at in seconds, when the tweet carries the field
TweetHasCreatedAt(m) == m # 6

TweetCreatedAt(m) ==
    IF m = 5 THEN StartTime - (MAX_TWEET_AGE_MINUTES * 60) ELSE StartTime + 1

\* the ids of the tweets that t quotes (referenced_tweets of type 'quoted'):
\* none or one
TweetQuoted(t) ==
    CASE t = 1 -> {QuoteBase + 1}
      [] t \in ChainTweets /\ t < QuoteBase + ChainLen -> {t + 1}
      [] t = SelfQuote -> {t}
      [] t \in CycleTweets -> CycleTweets \ {t}
      [] OTHER -> {}


(***************************************************************************)
(* State store (src/state.py).  In memory every id is a Python string,    *)
(* which the model writes as the number it spells.  In the state file an   *)
(* id is a JSON value, a string or a number, and str() maps both to the    *)
(* id they spell.                                                          *)
(***************************************************************************)
is_processed_never(set, tweet_id) == FALSE

is_processed(set, tweet_id) == tweet_id \in set

add_tweet_overwrite(set, tweet_id) == {tweet_id}

add_tweet(set, tweet_id) == set \cup {tweet_id}

get_allowed_author(gate, conversation_id) == gate[conversation_id]

set_allowed_author(gate, conversation_id, author_id) ==
    [gate EXCEPT ![conversation_id] = author_id]

JsonString(v) == <<"string", v>>
JsonNumber(v) == <<"number", v>>
str(j) == j[2]

\* list(a_set): the elements in some order
RECURSIVE list(_)
list(set) ==
    IF set = {} THEN <<>>
    ELSE LET x == CHOOSE y \in set : TRUE IN <<x>> \o list(set \ {x})

\* a parsed JSON document: type is "array", "object" or "other"; items are
\* the elements of an array; keys, processed_tweets and allowed_authors are
\* the members of an object, allowed_authors being a set of <<key, value>>
\* pairs when gate_type is "object"
JsonArray(items) ==
    [type |-> "array", items |-> items, keys |-> {}, processed_tweets |-> <<>>,
     gate_type |-> "object", allowed_authors |-> {}]

JsonObject(keys, tweets, gate_type, pairs) ==
    [type |-> "object", items |-> <<>>, keys |-> keys, processed_tweets |-> tweets,
     gate_type |-> gate_type, allowed_authors |-> pairs]

JsonOther ==
    [type |-> "other", items |-> <<>>, keys |-> {}, processed_tweets |-> <<>>,
     gate_type |-> "object", allowed_authors |-> {}]

\* a file that json.load cannot parse
Corrupt ==
    [type |-> "corrupt", items |-> <<>>, keys |-> {}, processed_tweets |-> <<>>,
     gate_type |-> "object", allowed_authors |-> {}]

Elements(seq) == {seq[i] : i \in DOMAIN seq}

\* mutants of State.save: the gate is not written; the ids are not written
save_without_gate(set, gate) ==
    LET tweets == list(set) IN
    JsonObject({"processed_tweets", "allowed_authors"},
               [i \in DOMAIN tweets |-> JsonString(tweets[i])], "object", {})

save_without_tweets(set, gate) ==
    JsonObject({"processed_tweets", "allowed_authors"}, <<>>, "object",
               {<<c, JsonString(gate[c])>> : c \in {k \in DOMAIN gate : gate[k] # None}})

\* State.save: json.dump of the two collections
save(set, gate) ==
    LET tweets == list(set) IN
    JsonObject({"processed_tweets", "allowed_authors"},
               [i \in DOMAIN tweets |-> JsonString(tweets[i])],
               "object",
               {<<c, JsonString(gate[c])>> : c \in {k \in DOMAIN gate : gate[k] # None}})

\* State.load on the file (<<>> when there is none, else <<document>>), for
\* conversation ids convs: the exception that leaves it, and the two
\* collections it assigns
load(file, convs) ==
    LET empty == [c \in convs |-> None] IN
    CASE file = <<>> ->
           [raised |-> "none", processed_tweets |-> {}, allowed_authors |-> empty]
      [] file # <<>> /\ file[1].type = "corrupt" ->
           [raised |-> "JSONDecodeError", processed_tweets |-> {},
            allowed_authors |-> empty]
      [] file # <<>> /\ file[1].type = "array" ->
           [raised |-> "none",
            processed_tweets |-> {str(j) : j \in Elements(file[1].items)},
            allowed_authors |-> empty]
      [] file # <<>> /\ file[1].type = "object" ->
           LET data == file[1]
               tweets == IF "processed_tweets" \in data.keys
                         THEN data.processed_tweets ELSE <<>>
               has_gate == "allowed_authors" \in data.keys
           IN  IF has_gate /\ data.gate_type # "object"
               THEN [raised |-> "AttributeError", processed_tweets |-> {},
                     allowed_authors |-> empty]
               ELSE [raised |-> "none",
                     processed_tweets |-> {str(j) : j \in Elements(tweets)},
                     allowed_authors |->
                         [c \in convs |->
                             IF has_gate /\ \E pr \in data.allowed_authors : pr[1] = c
                             THEN str((CHOOSE pr \in data.allowed_authors : pr[1] = c)[2])
                             ELSE None]]
      [] OTHER ->
           [raised |-> "none", processed_tweets |-> {}, allowed_authors |-> empty]

(***************************************************************************)
(* Rate limit controller (src/bot.py).  A clock record is                  *)
(* [now, backoff, reset, remaining]; sleeping advances now.                *)
(***************************************************************************)
Sleep(clk, seconds) == [clk EXCEPT !.now = @ + seconds]

handle_rate_limit_keeps_backoff(clk, reset_time, remaining) ==
    IF reset_time > clk.now
    THEN [now |-> clk.now + (reset_time - clk.now + RESET_BUFFER),
          backoff |-> clk.backoff,
          reset |-> reset_time,
          remaining |-> remaining]
    ELSE [Sleep(clk, Min(MIN_CHECK_INTERVAL * clk.backoff, RATE_LIMIT_SLEEP_CAP))
            EXCEPT !.backoff = Min(clk.backoff * 2, MAX_BACKOFF)]

handle_rate_limit_uncapped(clk, reset_time, remaining) ==
    IF reset_time > clk.now
    THEN [now |-> clk.now + (reset_time - clk.now + RESET_BUFFER),
          backoff |-> 1,
          reset |-> reset_time,
          remaining |-> remaining]
    ELSE [Sleep(clk, Min(MIN_CHECK_INTERVAL * clk.backoff, RATE_LIMIT_SLEEP_CAP))
            EXCEPT !.backoff = clk.backoff * 2]

handle_rate_limit(clk, reset_time, remaining) ==
    IF reset_time > clk.now
    THEN [now |-> clk.now + (reset_time - clk.now + RESET_BUFFER),
          backoff |-> 1,
          reset |-> reset_time,
          remaining |-> remaining]
    ELSE [Sleep(clk, Min(MIN_CHECK_INTERVAL * clk.backoff, RATE_LIMIT_SLEEP_CAP))
            EXCEPT !.backoff = Min(clk.backoff * 2, MAX_BACKOFF)]

\* the except branches of process_mentions for non-throttling errors
error_backoff(clk) ==
    [Sleep(clk, Min(MIN_CHECK_INTERVAL * clk.backoff, ERROR_SLEEP_CAP))
        EXCEPT !.backoff = Min(clk.backoff * 2, MAX_BACKOFF)]

\* _can_check_for_mentions: blocks until MIN_CHECK_INTERVAL has elapsed
can_check_for_mentions(clk, last_check) ==
    IF clk.now - last_check < MIN_CHECK_INTERVAL
    THEN Sleep(clk, MIN_CHECK_INTERVAL - (clk.now - last_check))
    ELSE clk

reset_hourly_rate_limit_zero(count, start, t) == [count |-> 0, start |-> start]

reset_hourly_rate_limit_late(count, start, t) ==
    IF t - start > HOUR
    THEN [count |-> 0, start |-> t]
    ELSE [count |-> count, start |-> start]

\* _reset_hourly_rate_limit, as [count, start]
reset_hourly_rate_limit(count, start, t) ==
    IF t - start >= HOUR
    THEN [count |-> 0, start |-> t]
    ELSE [count |-> count, start |-> start]

\* the x-rate-limit-reset header of a TooManyRequests: 0 when missing or
\* stale, a future time otherwise
ResetKinds == {"stale", "live"}
ResetTime(kind, t) == IF kind = "live" THEN t + ResetDelay ELSE 0

is_tweet_too_old_unless_missing(m, t) ==
    TweetHasCreatedAt(m) /\ t - TweetCreatedAt(m) > MAX_TWEET_AGE_MINUTES * 60

is_tweet_too_old_inclusive(m, t) ==
    IF ~TweetHasCreatedAt(m) THEN TRUE
    ELSE t - TweetCreatedAt(m) >= MAX_TWEET_AGE_MINUTES * 60

\* _is_tweet_too_old with Config.MAX_TWEET_AGE_MINUTES defined; a created_at
\* that cannot be parsed counts as one that is missing
is_tweet_too_old(m, t) ==
    IF ~TweetHasCreatedAt(m) THEN TRUE
    ELSE t - TweetCreatedAt(m) > MAX_TWEET_AGE_MINUTES * 60


(***************************************************************************)
(* Context extractor (src/bot.py).  A fetch scenario gives the outcome of  *)
(* get_tweet_by_id for every tweet that can be fetched: a response with    *)
(* data, a response without data, TooManyRequests, another                 *)
(* TweepyException, or an exception that is no TweepyException (requests   *)
(* raises its own on a network timeout).                                   *)
(***************************************************************************)
FetchOutcomes == {"ok", "none", "throttled", "tweepy_error", "error"}
ContextTweets == {1} \cup ChainTweets \cup {SelfQuote} \cup CycleTweets

\* scenarios with at most one failing fetch
FetchScenarios ==
    {[t \in ContextTweets |-> "ok"]} \cup
    {[t \in ContextTweets |-> IF t = bad THEN o ELSE "ok"] :
        bad \in ContextTweets, o \in FetchOutcomes \ {"ok"}}

RECURSIVE extract_full_context_deeper(_, _, _)
extract_full_context_deeper(t, depth, f) ==
    IF depth >= MAX_DEPTH + 1 \/ TweetQuoted(t) = {}
    THEN [raised |-> "none", texts |-> <<t>>, fetched |-> <<>>]
    ELSE LET q == CHOOSE x \in TweetQuoted(t) : TRUE IN
         CASE f[q] = "ok" ->
                LET r == extract_full_context_deeper(q, depth + 1, f) IN
                [raised |-> r.raised,
                 texts |-> <<t>> \o r.texts,
                 fetched |-> <<q>> \o r.fetched]
           [] f[q] = "throttled" ->
                [raised |-> "TooManyRequests", texts |-> <<t>>, fetched |-> <<q>>]
           [] f[q] = "error" ->
                [raised |-> "Exception", texts |-> <<t>>, fetched |-> <<q>>]
           [] OTHER ->
                [raised |-> "none", texts |-> <<t>>, fetched |-> <<q>>]

\* _extract_full_context(tweet_response, depth): texts is the chain of tweets
\* whose text ends up in the context, fetched the get_tweet_by_id calls made,
\* raised the exception that leaves the call
RECURSIVE extract_full_context(_, _, _)
extract_full_context(t, depth, f) ==
    IF depth >= MAX_DEPTH \/ TweetQuoted(t) = {}
    THEN [raised |-> "none", texts |-> <<t>>, fetched |-> <<>>]
    ELSE LET q == CHOOSE x \in TweetQuoted(t) : TRUE IN
         CASE f[q] = "ok" ->
                LET r == extract_full_context(q, depth + 1, f) IN
                [raised |-> r.raised,
                 texts |-> <<t>> \o r.texts,
                 fetched |-> <<q>> \o r.fetched]
           [] f[q] = "throttled" ->
                [raised |-> "TooManyRequests", texts |-> <<t>>, fetched |-> <<q>>]
           [] f[q] = "error" ->
                [raised |-> "Exception", texts |-> <<t>>, fetched |-> <<q>>]
           [] OTHER ->
                [raised |-> "none", texts |-> <<t>>, fetched |-> <<q>>]

\* _extract_context_from_tweet(tweet): the conversation-root path.  A
\* TooManyRequests from the quoted fetch or from below it is caught here
\* (throttled = TRUE: _handle_rate_limit is called and the loop is left).
extract_context_from_tweet(m, f) ==
    LET none == [raised |-> "none", throttled |-> FALSE, texts |-> <<>>, fetched |-> <<>>]
    IN  IF TweetQuoted(m) = {} THEN none
        ELSE LET q == CHOOSE x \in TweetQuoted(m) : TRUE IN
             CASE f[q] = "ok" ->
                    LET r == extract_full_context(q, 0, f) IN
                    CASE r.raised = "TooManyRequests" ->
                            [none EXCEPT !.throttled = TRUE, !.fetched = <<q>> \o r.fetched]
                      [] r.raised = "Exception" ->
                            [none EXCEPT !.raised = "Exception", !.fetched = <<q>> \o r.fetched]
                      [] OTHER ->
                            [none EXCEPT !.texts = r.texts, !.fetched = <<q>> \o r.fetched]
               [] f[q] = "throttled" ->
                    [none EXCEPT !.throttled = TRUE, !.fetched = <<q>>]
               [] f[q] = "error" ->
                    [none EXCEPT !.raised = "Exception", !.fetched = <<q>>]
               [] OTHER -> [none EXCEPT !.fetched = <<q>>]

\* the reply-in-thread path of _process_single_tweet (lines 352-401): the
\* conversation root is fetched; aborted = TRUE is the return at line 395
extract_thread_context(m, f) ==
    LET p == TweetConversation(m)
        none == [aborted |-> FALSE, texts |-> <<>>, fetched |-> <<p>>]
    IN  CASE f[p] = "ok" ->
                LET r == extract_full_context(p, 0, f) IN
                CASE r.raised = "TooManyRequests" ->
                        [none EXCEPT !.aborted = TRUE, !.fetched = <<p>> \o r.fetched]
                  [] r.raised = "Exception" ->
                        [none EXCEPT !.fetched = <<p>> \o r.fetched]
                  [] OTHER ->
                        [none EXCEPT !.texts = r.texts, !.fetched = <<p>> \o r.fetched]
          [] f[p] = "throttled" -> [none EXCEPT !.aborted = TRUE]
          [] OTHER -> none

\* lines 343-401 of _process_single_tweet: status is "ok" (go on to the
\* reply), "aborted" (return at line 395) or "raised" (an exception leaves
\* _process_single_tweet); handled counts the _handle_rate_limit calls
extract_context(m, f) ==
    IF TweetConversation(m) = m
    THEN LET c == extract_context_from_tweet(m, f) IN
         [status |-> IF c.raised = "Exception" THEN "raised" ELSE "ok",
          handled |-> IF c.throttled THEN 1 ELSE 0,
          throttled |-> c.throttled,
          texts |-> c.texts,
          fetched |-> c.fetched]
    ELSE LET c == extract_thread_context(m, f) IN
         [status |-> IF c.aborted THEN "aborted" ELSE "ok",
          handled |-> IF c.aborted THEN 1 ELSE 0,
          throttled |-> c.aborted,
          texts |-> c.texts,
          fetched |-> c.fetched]

\* the urls of a tweet's entities, in the order of the entity list: the
\* mentions of conversation 1, the first two tweets of the quote chain and
\* the self-quoting tweet carry some, one of them shared and one repeated
TweetUrls(t) ==
    CASE t = 1 -> <<"url_root", "url_shared">>
      [] t = 2 -> <<"url_reply", "url_root", "url_reply">>
      [] t = QuoteBase + 1 -> <<"url_quote", "url_shared">>
      [] t = QuoteBase + 2 -> <<"url_nested">>
      [] OTHER -> <<>>

\* list(dict.fromkeys(urls)): the first occurrence of each element, in order
RECURSIVE fromkeys(_)
fromkeys(urls) ==
    IF urls = <<>> THEN <<>>
    ELSE LET front == fromkeys(SubSeq(urls, 1, Len(urls) - 1))
             x == urls[Len(urls)]
         IN  IF \E i \in DOMAIN front : front[i] = x THEN front
             ELSE Append(front, x)

extract_urls_from_entities(t) == fromkeys(TweetUrls(t))

\* context_urls as _process_single_tweet hands it on (lines 351, 378-380) and
\* as _extract_context_from_tweet builds it (lines 166, 183-185): the urls of
\* the quoted tweet are added only when its fetch and the extraction below
\* it come back, those of the conversation root and of the mention in the
\* thread path only when the root's fetch and extraction come back
context_urls(m, f) ==
    IF TweetConversation(m) = m
    THEN LET quoted == IF TweetQuoted(m) = {} THEN <<>>
                       ELSE LET q == CHOOSE x \in TweetQuoted(m) : TRUE IN
                            IF f[q] = "ok" /\ extract_full_context(q, 0, f).raised = "none"
                            THEN extract_urls_from_entities(q)
                            ELSE <<>>
         IN  fromkeys(quoted \o extract_urls_from_entities(m))
    ELSE LET p == TweetConversation(m) IN
         IF f[p] = "ok" /\ extract_full_context(p, 0, f).raised = "none"
         THEN extract_urls_from_entities(p) \o extract_urls_from_entities(m)
         ELSE <<>>

\* what context extraction can come to for each mention, over all scenarios
ContextResults ==
    [m \in Mentions |-> {extract_context(m, f) : f \in FetchScenarios}]

(***************************************************************************)
(* Reply generation pipeline (src/venice_api.py).  A backend response is   *)
(* an HTTP failure or a text; texts are told apart by what the code tests: *)
(* empty, a [FINAL_REPLY] block or none, a banned phrase, over the budget. *)
(***************************************************************************)
ERROR_MESSAGE == "error_message"
Responses == {"http_error", "empty", "plain_ok", "plain_banned", "plain_long",
              "final_ok", "final_banned", "final_long", "final_empty"}

IsBanned(text) == text \in {"plain_banned", "final_banned"}
IsLong(text) == text \in {"plain_long", "final_long"}

\* len(text) for the texts of Responses: the longest text within the standard
\* budget, and the shortest one over it
TextLength(text) ==
    CASE text = "empty" -> 0
      [] IsLong(text) -> STANDARD_CHAR_LIMIT + 1
      [] OTHER -> STANDARD_CHAR_LIMIT

\* _extract_final_reply_and_notes: the content of the [FINAL_REPLY] block
extract_final_reply(text) ==
    CASE text = "final_ok" -> "plain_ok"
      [] text = "final_banned" -> "plain_banned"
      [] text = "final_long" -> "plain_long"
      [] text = "final_empty" -> "empty"
      [] OTHER -> None

get_expert_analysis(resp) ==
    IF resp = "http_error" THEN ERROR_MESSAGE ELSE resp

\* a craft_tweet that never takes the block as it is
craft_tweet_always_rewrites(summary_text, r1, r2) ==
    IF r1 = "http_error"
    THEN [text |-> ERROR_MESSAGE, calls |-> 1]
    ELSE IF IsBanned(r1) \/ IsLong(r1)
         THEN [text |-> IF r2 = "http_error" THEN ERROR_MESSAGE ELSE r2, calls |-> 2]
         ELSE [text |-> r1, calls |-> 1]

craft_tweet_unretried(summary_text, r1, r2) ==
    LET candidate_tweet == extract_final_reply(summary_text) IN
    IF candidate_tweet # None /\ candidate_tweet # "empty"
    THEN IF ~IsBanned(candidate_tweet) /\ ~IsLong(candidate_tweet)
         THEN [text |-> candidate_tweet, calls |-> 0]
         ELSE [text |-> IF r1 = "http_error" THEN ERROR_MESSAGE ELSE r1, calls |-> 1]
    ELSE [text |-> IF r1 = "http_error" THEN ERROR_MESSAGE ELSE r1, calls |-> 1]

\* craft_tweet(summary_text): r1 and r2 are the backend's responses to the
\* first and second request it makes, if it makes them
craft_tweet(summary_text, r1, r2) ==
    LET candidate_tweet == extract_final_reply(summary_text) IN
    IF candidate_tweet # None /\ candidate_tweet # "empty"
    THEN IF ~IsBanned(candidate_tweet) /\ ~IsLong(candidate_tweet)
         THEN [text |-> candidate_tweet, calls |-> 0]
         ELSE [text |-> IF r1 = "http_error" THEN ERROR_MESSAGE ELSE r1, calls |-> 1]
    ELSE IF r1 = "http_error"
         THEN [text |-> ERROR_MESSAGE, calls |-> 1]
         ELSE IF IsBanned(r1) \/ IsLong(r1)
              THEN [text |-> IF r2 = "http_error" THEN ERROR_MESSAGE ELSE r2, calls |-> 2]
              ELSE [text |-> r1, calls |-> 1]

generate_reply_unchecked(an, r1, r2) ==
    LET analysis == get_expert_analysis(an) IN
    IF analysis = ERROR_MESSAGE
    THEN [ok |-> FALSE, text |-> analysis, calls |-> 1]
    ELSE LET final_reply == craft_tweet(analysis, r1, r2) IN
         [ok |-> TRUE, text |-> final_reply.text, calls |-> 1 + final_reply.calls]

\* lines 245-260 of _generate_and_send_reply: ok = FALSE is "return False"
generate_reply(an, r1, r2) ==
    LET analysis == get_expert_analysis(an) IN
    IF analysis = ERROR_MESSAGE
    THEN [ok |-> FALSE, text |-> analysis, calls |-> 1]
    ELSE LET final_reply == craft_tweet(analysis, r1, r2) IN
         [ok |-> ~(final_reply.text = "empty" \/ final_reply.text = ERROR_MESSAGE),
          text |-> final_reply.text,
          calls |-> 1 + final_reply.calls]

\* what the pipeline can come to, over all backend responses
PipelineResults ==
    {generate_reply(s[1], s[2], s[3]) : s \in Responses \X Responses \X Responses}

\* reply_to_tweet: a response, None (403 Forbidden), TooManyRequests,
\* another TweepyException, any other exception
PostOutcomes == {"ok", "forbidden", "throttled", "tweepy_error", "error"}


(***************************************************************************)
(* State.                                                                  *)
(***************************************************************************)
VARIABLES
    cfg,                 \* which Config keys the deployment defines
    processed,           \* State.processed_tweets
    allowed_authors,     \* State.allowed_authors: conversation -> author or None
    hourly_reply_count,  \* VeniceBot.hourly_reply_count
    hourly_check_time,   \* VeniceBot.hourly_check_time
    last_check_time,     \* VeniceBot.last_check_time
    clk,                 \* time.time() and rate_limit_backoff / _reset_time / _remaining
    pc,                  \* position of the control thread
    queue,               \* mentions of the fetched batch still to process
    cur,                 \* the mention being processed
    disk,                \* the state file: <<>> when missing, else <<contents>>
    posted,              \* platform: replies created per mention
    faults,              \* platform: failures answered with a back-off sleep so far
    last                 \* what the last step did

vars == <<cfg, processed, allowed_authors, hourly_reply_count, hourly_check_time,
          last_check_time, clk, pc, queue, cur, disk, posted, faults, last>>

\* Config as shipped defines neither MAX_TWEET_AGE_MINUTES nor
\* USE_SESSION_START_CUTOFF (src/config.py); a deployment that defines them
\* has the cutoff off or on
Configs == {"shipped", "cutoff_off", "cutoff_on"}

Conversations == Mentions

Snapshot == [processed |-> processed,
             allowed_authors |-> allowed_authors,
             hourly_reply_count |-> hourly_reply_count,
             hourly_check_time |-> hourly_check_time,
             now |-> clk.now]

NoCur == [tweet |-> 0, throttled |-> FALSE, calls |-> 0, text |-> None,
          pre |-> [processed |-> {},
                   allowed_authors |-> [c \in Conversations |-> None],
                   hourly_reply_count |-> 0,
                   hourly_check_time |-> 0,
                   now |-> 0]]

\* a step's record: op is "init", "poll", "context", "generate" or "process"
\* and tweet the mention it is about (0 when it is about none);
\* for "process" (the processing of mention tweet has ended) outcome says
\* how, calls counts the backend requests, posts the replies created,
\* paused the trailing sleep, throttled a throttle caught during context
\* extraction, and pre is the store, counter and time when the processing
\* began
Event(op, tweet, outcome, c, posts, paused) ==
    [op |-> op, tweet |-> tweet, outcome |-> outcome, calls |-> c.calls,
     posts |-> posts, paused |-> paused, throttled |-> c.throttled,
     pre |-> c.pre]

Init ==
    /\ cfg \in Configs
    /\ processed = {}
    /\ allowed_authors = [c \in Conversations |-> None]
    /\ hourly_reply_count = 0
    /\ hourly_check_time = StartTime
    /\ last_check_time = 0
    /\ clk = [now |-> StartTime, backoff |-> 1, reset |-> 0, remaining |-> 100]
    /\ pc = "idle"
    /\ queue = <<>>
    /\ cur = NoCur
    /\ disk = <<>>
    /\ posted = [m \in Mentions |-> 0]
    /\ faults = 0
    /\ last = Event("init", 0, "none", NoCur, 0, FALSE)

session_start == StartTime


(***************************************************************************)
(* process_mentions up to the fetch (lines 451-479, 516-535) and the       *)
(* save() that run() makes when it returns.                                *)
(***************************************************************************)
\* lines 453-460: the interval wait, the hourly reset and the cap test
poll_gate ==
    LET c == can_check_for_mentions(clk, last_check_time)
        h == reset_hourly_rate_limit(hourly_reply_count, hourly_check_time, c.now)
    IN  [clk |-> c, count |-> h.count, start |-> h.start,
         capped |-> h.count >= MAX_REPLIES_PER_HOUR]

\* run() is about to call process_mentions; limit bounds the time at which a
\* cycle may still start
CanPollBefore(limit) == pc = "idle" /\ clk.now < StartTime + limit

CanPoll == CanPollBefore(Horizon)

CanFetchBefore(limit) == CanPollBefore(limit) /\ ~poll_gate.capped /\ cfg # "shipped"

CanFetch == CanFetchBefore(Horizon)

\* the record of a cycle of process_mentions: pre is the store and the
\* counter when the cycle began, clock the clock when the hourly test was
\* made and the mentions were (or would have been) requested, reset_at and
\* remaining the headers of the throttling response, if there was one
PollEvent(outcome, clock, reset_at) ==
    [op |-> "poll", tweet |-> 0, outcome |-> outcome, calls |-> 0, posts |-> 0,
     paused |-> FALSE, throttled |-> FALSE, pre |-> Snapshot,
     clock |-> clock, reset_at |-> reset_at, remaining |-> 0]

\* the cycle ends before the fetch: the cap is reached (return, then save), or
\* Config.USE_SESSION_START_CUTOFF raises AttributeError at line 463, which
\* run() catches at line 548: it sleeps and does not save
SkippedBefore(limit) ==
    /\ CanPollBefore(limit)
    /\ poll_gate.capped \/ cfg = "shipped"
    /\ hourly_reply_count' = poll_gate.count
    /\ hourly_check_time' = poll_gate.start
    /\ IF poll_gate.capped
       THEN /\ clk' = poll_gate.clk
            /\ disk' = <<save(processed, allowed_authors)>>
            /\ last' = PollEvent("capped", poll_gate.clk, 0)
       ELSE /\ clk' = Sleep(poll_gate.clk, CRITICAL_SLEEP)
            /\ disk' = disk
            /\ last' = PollEvent("config_error", poll_gate.clk, 0)
    /\ UNCHANGED <<cfg, processed, allowed_authors, last_check_time, pc, queue, cur,
                   posted, faults>>

PollSkipped == SkippedBefore(Horizon)

\* get_mentions raises TooManyRequests (lines 516-521)
ThrottledBefore(limit, budget) ==
    /\ CanFetchBefore(limit)
    /\ faults < budget
    /\ faults' = faults + 1
    /\ \E kind \in ResetKinds :
          LET reset_time == ResetTime(kind, poll_gate.clk.now) IN
          /\ clk' = handle_rate_limit(poll_gate.clk, reset_time, 0)
          /\ last' = PollEvent("throttled", poll_gate.clk, reset_time)
    /\ hourly_reply_count' = poll_gate.count
    /\ hourly_check_time' = poll_gate.start
    /\ disk' = <<save(processed, allowed_authors)>>
    /\ UNCHANGED <<cfg, processed, allowed_authors, last_check_time, pc, queue, cur, posted>>

PollThrottled == ThrottledBefore(Horizon, MaxFaults)

\* get_mentions raises anything else (lines 522-535)
FailedBefore(limit, budget) ==
    /\ CanFetchBefore(limit)
    /\ faults < budget
    /\ faults' = faults + 1
    /\ clk' = error_backoff(poll_gate.clk)
    /\ hourly_reply_count' = poll_gate.count
    /\ hourly_check_time' = poll_gate.start
    /\ disk' = <<save(processed, allowed_authors)>>
    /\ last' = PollEvent("error", poll_gate.clk, 0)
    /\ UNCHANGED <<cfg, processed, allowed_authors, last_check_time, pc, queue, cur, posted>>

PollFailed == FailedBefore(Horizon, MaxFaults)

\* no mentions (lines 475-479)
EmptyBefore(limit) ==
    /\ CanFetchBefore(limit)
    /\ clk' = poll_gate.clk
    /\ last_check_time' = poll_gate.clk.now
    /\ hourly_reply_count' = poll_gate.count
    /\ hourly_check_time' = poll_gate.start
    /\ disk' = <<save(processed, allowed_authors)>>
    /\ last' = PollEvent("empty", poll_gate.clk, 0)
    /\ UNCHANGED <<cfg, processed, allowed_authors, pc, queue, cur, posted, faults>>

PollEmpty == EmptyBefore(Horizon)

\* the feed returns one to MaxBatch mentions, newest first (ids grow with
\* time)
Batches ==
    {b \in UNION {[1..n -> Mentions] : n \in 1..MaxBatch} :
        \A i, j \in 1..Len(b) : i < j => b[i] > b[j]}

Reverse_feed_order(seq) == seq

Reverse(seq) == [i \in 1..Len(seq) |-> seq[Len(seq) + 1 - i]]

\* mentions fetched: the loop of line 485 takes them oldest first
FetchedBefore(limit, feed) ==
    /\ CanFetchBefore(limit)
    /\ \E b \in feed : queue' = Reverse(b)
    /\ pc' = "batch"
    /\ clk' = poll_gate.clk
    /\ hourly_reply_count' = poll_gate.count
    /\ hourly_check_time' = poll_gate.start
    /\ last' = PollEvent("fetched", poll_gate.clk, 0)
    /\ UNCHANGED <<cfg, processed, allowed_authors, last_check_time, cur, disk, posted,
                   faults>>

PollFetched == FetchedBefore(Horizon, Batches)

\* the loop is over (lines 512-514), process_mentions returns and run() saves
PollEnd ==
    /\ pc = "batch"
    /\ queue = <<>>
    /\ last_check_time' = clk.now
    /\ disk' = <<save(processed, allowed_authors)>>
    /\ pc' = "idle"
    /\ last' = PollEvent("done", clk, 0)
    /\ UNCHANGED <<cfg, processed, allowed_authors, hourly_reply_count,
                   hourly_check_time, clk, queue, cur, posted, faults>>


(***************************************************************************)
(* One mention (the body of the loop at line 485 and                       *)
(* _process_single_tweet), in three steps: the gates and the context       *)
(* extraction, the backend requests, the post.                             *)
(***************************************************************************)
\* user_lookup.get(tweet.author_id): the author's entry of this fetch
UserKinds == {"ok", "missing", "protected"}

before_session_start_never(config, m) == FALSE

\* lines 493-501: the session-start cutoff
before_session_start(config, m) ==
    /\ config = "cutoff_on"
    /\ TweetHasCreatedAt(m)
    /\ TweetCreatedAt(m) < session_start

author_always_allowed(gate, m) == FALSE

\* lines 330-332: the conversation is gated to another author
author_not_allowed(gate, m) ==
    LET allowed_author == get_allowed_author(gate, TweetConversation(m)) IN
    allowed_author # None /\ TweetAuthor(m) # allowed_author

\* lines 312-341: the reason to return early, or "pass"
skip_reason(set, gate, m, uk, t) ==
    IF is_processed(set, m) THEN "already"
    ELSE IF uk = "missing" THEN "no_author"
    ELSE IF uk = "protected" THEN "protected"
    ELSE IF TweetAuthor(m) = BotId THEN "self"
    ELSE IF author_not_allowed(gate, m) THEN "not_allowed"
    ELSE IF is_tweet_too_old(m, t) THEN "too_old"
    ELSE "pass"

marks_processed_always(reply_successful) == TRUE

\* line 443: the mention is marked processed exactly when the reply was sent
marks_processed(reply_successful) == reply_successful

count_reply_skipped(count, confirmed) == count

\* line 265: a confirmed post is counted
count_reply(count, confirmed) == IF confirmed THEN count + 1 ELSE count

gate_reply_never(gate, m, confirmed) == gate

gate_reply_unconfirmed(gate, m, confirmed) ==
    IF get_allowed_author(gate, TweetConversation(m)) = None
    THEN set_allowed_author(gate, TweetConversation(m), TweetAuthor(m))
    ELSE gate

\* lines 266-267: a confirmed post gates the conversation if it has no gate
gate_reply(gate, m, confirmed) ==
    IF confirmed /\ get_allowed_author(gate, TweetConversation(m)) = None
    THEN set_allowed_author(gate, TweetConversation(m), TweetAuthor(m))
    ELSE gate

\* the processing of mention m ends: the loop goes on to the next mention
EndTweet(m, outcome, mark, confirmed, c, posts, paused, clock, handled) ==
    /\ processed' = IF mark THEN add_tweet(processed, m) ELSE processed
    /\ hourly_reply_count' = count_reply(hourly_reply_count, confirmed)
    /\ allowed_authors' = gate_reply(allowed_authors, m, confirmed)
    /\ posted' = [posted EXCEPT ![m] = @ + posts]
    /\ clk' = IF paused THEN Sleep(clock, TWEET_PROCESSING_DELAY) ELSE clock
    /\ pc' = "batch"
    /\ queue' = Tail(queue)
    /\ cur' = NoCur
    /\ faults' = faults + handled
    /\ last' = Event("process", m, outcome, c, posts, paused)
    /\ UNCHANGED <<cfg, hourly_check_time, last_check_time, disk>>

\* the gates of lines 493-341 stop the mention
SkipTweet ==
    /\ pc = "batch"
    /\ queue # <<>>
    /\ LET m == Head(queue)
           c == [NoCur EXCEPT !.tweet = m, !.pre = Snapshot]
       IN  IF before_session_start(cfg, m)
           THEN EndTweet(m, "before_session", TRUE, FALSE, c, 0, FALSE, clk, 0)
           ELSE \E uk \in UserKinds :
                   LET reason == skip_reason(processed, allowed_authors, m, uk, clk.now) IN
                   /\ reason # "pass"
                   /\ reason = "already" => uk = "ok"
                   /\ EndTweet(m, reason, reason # "already", FALSE, c, 0, FALSE, clk, 0)

\* the mention passes the gates and its context is extracted (lines 343-401):
\* an exception that leaves _process_single_tweet is caught at line 508 and
\* the mention is marked processed (line 510); the return of line 395 ends
\* the processing without pause; otherwise the reply is generated next
ExtractContext ==
    /\ pc = "batch"
    /\ queue # <<>>
    /\ LET m == Head(queue) IN
       /\ ~before_session_start(cfg, m)
       /\ skip_reason(processed, allowed_authors, m, "ok", clk.now) = "pass"
       /\ \E x \in ContextResults[m], kind \in ResetKinds :
             LET c == [NoCur EXCEPT !.tweet = m, !.pre = Snapshot,
                                    !.throttled = x.throttled]
                 clock == IF x.handled = 0 THEN clk
                          ELSE handle_rate_limit(clk, ResetTime(kind, clk.now), 0)
             IN  /\ x.handled = 0 => kind = "stale"
                 /\ x.handled > 0 => faults < MaxFaults
                 /\ CASE x.status = "raised" ->
                            EndTweet(m, "exception", TRUE, FALSE, c, 0, FALSE, clock, 0)
                      [] x.status = "aborted" ->
                            EndTweet(m, "context_throttled", FALSE, FALSE, c, 0, FALSE,
                                     clock, 1)
                      [] OTHER ->
                            /\ pc' = "generate"
                            /\ cur' = c
                            /\ clk' = clock
                            /\ faults' = faults + x.handled
                            /\ last' = Event("context", m, "ok", c, 0, FALSE)
                            /\ UNCHANGED <<cfg, processed, allowed_authors,
                                           hourly_reply_count, hourly_check_time,
                                           last_check_time, queue, disk, posted>>

\* get_expert_analysis and craft_tweet (lines 245-260): on "return False"
\* the mention is not marked and the pause of line 449 follows
GenerateReply ==
    /\ pc = "generate"
    /\ \E g \in PipelineResults :
          LET c == [cur EXCEPT !.calls = g.calls, !.text = g.text]
          IN  IF g.ok
              THEN /\ pc' = "post"
                   /\ cur' = c
                   /\ last' = Event("generate", cur.tweet, "ok", c, 0, FALSE)
                   /\ UNCHANGED <<cfg, processed, allowed_authors, hourly_reply_count,
                                  hourly_check_time, last_check_time, clk, queue,
                                  disk, posted, faults>>
              ELSE EndTweet(cur.tweet, "generation_failed",
                            marks_processed(FALSE), FALSE, c, 0, TRUE, clk, 0)

\* reply_to_tweet (lines 262-282) and lines 442-449
SendReply ==
    /\ pc = "post"
    /\ \E po \in PostOutcomes, kind \in ResetKinds :
          LET confirmed == po = "ok"
              clock == IF po = "throttled"
                       THEN handle_rate_limit(clk, ResetTime(kind, clk.now), 0)
                       ELSE clk
          IN  /\ po # "throttled" => kind = "stale"
              /\ po = "throttled" => faults < MaxFaults
              /\ EndTweet(cur.tweet,
                          IF confirmed THEN "replied" ELSE "post_" \o po,
                          marks_processed(confirmed), confirmed, cur,
                          IF confirmed THEN 1 ELSE 0, TRUE, clock,
                          IF po = "throttled" THEN 1 ELSE 0)

\* KeyboardInterrupt.  Raised while process_mentions or save runs (no handler
\* below run() catches it: the handlers of src catch Exception), it reaches
\* line 544: run() saves and leaves the loop.  Raised during the sleep of
\* line 550 it is raised inside a handler, which no clause of the same try
\* catches: it leaves run() and the process without a save.
Interrupt ==
    /\ pc \in {"idle", "batch", "generate", "post"}
    /\ \E sleeping \in {last.op = "poll" /\ last.outcome = "config_error", FALSE} :
          IF sleeping
          THEN /\ disk' = disk
               /\ last' = Event("interrupt", cur.tweet, "unsaved", cur, 0, FALSE)
          ELSE /\ disk' = <<save(processed, allowed_authors)>>
               /\ last' = Event("interrupt", cur.tweet, "saved", cur, 0, FALSE)
    /\ pc' = "stopped"
    /\ UNCHANGED <<cfg, processed, allowed_authors, hourly_reply_count,
                   hourly_check_time, last_check_time, clk, queue, cur, posted,
                   faults>>

Next ==
    \/ PollSkipped
    \/ PollThrottled
    \/ PollFailed
    \/ PollEmpty
    \/ PollFetched
    \/ SkipTweet
    \/ ExtractContext
    \/ GenerateReply
    \/ SendReply
    \/ PollEnd
    \/ Interrupt

Spec == Init /\ [][Next]_vars


(***************************************************************************)
(* The rate limit controller on a quiet feed: run() calls process_mentions *)
(* for an hour and more, and every fetch is throttled, fails or returns no *)
(* mention.  The bot is either just constructed, with the store that       *)
(* State.load read, or has been busy for BusyTime seconds and has replied  *)
(* to about MAX_REPLIES_PER_HOUR mentions in its first window.             *)
(***************************************************************************)
LoadedStores ==
    {[processed |-> {}, allowed_authors |-> [c \in Conversations |-> None]],
     [processed |-> {1, 2},
      allowed_authors |-> [c \in Conversations |-> IF c = 1 THEN "a1" ELSE None]]}

BusyCounts ==
    {MAX_REPLIES_PER_HOUR - 1, MAX_REPLIES_PER_HOUR, MAX_REPLIES_PER_HOUR + 1}

ControllerInit ==
    /\ cfg \in Configs
    /\ \E st \in LoadedStores :
          /\ processed = st.processed
          /\ allowed_authors = st.allowed_authors
          /\ disk = IF st.processed = {} THEN <<>>
                    ELSE <<save(st.processed, st.allowed_authors)>>
    /\ hourly_check_time = StartTime
    /\ \/ /\ hourly_reply_count = 0
          /\ last_check_time = 0
          /\ clk = [now |-> StartTime, backoff |-> 1, reset |-> 0, remaining |-> 100]
       \/ /\ hourly_reply_count \in BusyCounts
          /\ cfg # "shipped"
          /\ processed # {}
          /\ last_check_time = StartTime + BusyTime
          /\ clk = [now |-> StartTime + BusyTime, backoff |-> 1, reset |-> 0,
                    remaining |-> 100]
    /\ pc = "idle"
    /\ queue = <<>>
    /\ cur = NoCur
    /\ posted = [m \in Mentions |-> 0]
    /\ faults = 0
    /\ last = Event("init", 0, "none", NoCur, 0, FALSE)

QuietSkipped == SkippedBefore(QuietHorizon)

QuietThrottled == ThrottledBefore(QuietHorizon, QuietFaults)

QuietFailed == FailedBefore(QuietHorizon, QuietFaults)

QuietEmpty == EmptyBefore(QuietHorizon)

ControllerNext ==
    \/ QuietSkipped
    \/ QuietThrottled
    \/ QuietFailed
    \/ QuietEmpty

ControllerSpec == ControllerInit /\ [][ControllerNext]_vars


(***************************************************************************)
(* Direct calls of the store's and the age test's functions, as a unit     *)
(* test makes them: the store holds any gate for conversation 5, the call  *)
(* is made at a time around StartTime, and each step is one call with      *)
(* arguments drawn from small sets.                                        *)
(***************************************************************************)
CallConversations == {5}
CallAuthors == {"a1", "a2"}

CallGates ==
    {g \in [Conversations -> {None} \cup CallAuthors] :
        \A c \in Conversations \ CallConversations : g[c] = None}

CallTimes == (StartTime - CallSpread)..(StartTime + CallSpread)

\* the record of a call: pre is the store, the counter and the time before it
Call(op, args, result) ==
    [op |-> op, args |-> args, result |-> result, pre |-> Snapshot]

UnitInit ==
    /\ cfg = "cutoff_off"
    /\ processed = {}
    /\ allowed_authors \in CallGates
    /\ hourly_reply_count = 0
    /\ hourly_check_time = StartTime
    /\ last_check_time = 0
    /\ \E t \in CallTimes :
          clk = [now |-> t, backoff |-> 1, reset |-> 0, remaining |-> 100]
    /\ pc = "idle"
    /\ queue = <<>>
    /\ cur = NoCur
    /\ disk = <<>>
    /\ posted = [m \in Mentions |-> 0]
    /\ faults = 0
    /\ last = Call("init", <<>>, None)

\* state.set_allowed_author(conversation_id, author_id)
CallSetAllowedAuthor ==
    /\ \E c \in CallConversations, a \in CallAuthors :
          /\ allowed_authors' = set_allowed_author(allowed_authors, c, a)
          /\ last' = Call("set_allowed_author", <<c, a>>, None)
    /\ UNCHANGED <<cfg, processed, hourly_reply_count, hourly_check_time,
                   last_check_time, clk, pc, queue, cur, disk, posted, faults>>

\* lines 337-341 of _process_single_tweet, for mention m at the current time:
\* a mention that _is_tweet_too_old is added to the processed set
AgeGate ==
    /\ \E m \in Mentions :
          LET too_old == is_tweet_too_old(m, clk.now) IN
          /\ processed' = IF too_old THEN add_tweet(processed, m) ELSE processed
          /\ last' = Call("age_gate", <<m>>, too_old)
    /\ UNCHANGED <<cfg, allowed_authors, hourly_reply_count, hourly_check_time,
                   last_check_time, clk, pc, queue, cur, disk, posted, faults>>

(***************************************************************************)
(* reply_to_tweet (src/twitter_client.py).  A text is its length and, for  *)
(* each of the sentence ends '. ', '! ' and '? ', the indices at which it  *)
(* occurs; what is sent is a prefix of the text, with or without '...'.    *)
(***************************************************************************)
SentenceEnds == <<"dot", "bang", "quest">>

char_limit(premium) == IF premium THEN X_PREMIUM_CHAR_LIMIT ELSE STANDARD_CHAR_LIMIT

\* truncated.rfind(punct) for truncated = text[:upto]
rfind(text, punct, upto) ==
    LET found == {i \in text.ends[punct] : i + 2 <= upto} IN
    IF found = {} THEN -1 ELSE CHOOSE i \in found : \A k \in found : k <= i

reply_to_tweet_uncut(text, premium) ==
    LET limit == char_limit(premium) IN
    IF text.len <= limit THEN [prefix |-> text.len, ellipsis |-> FALSE]
    ELSE [prefix |-> limit, ellipsis |-> TRUE]

\* the text reply_to_tweet passes to create_tweet
reply_to_tweet(text, premium) ==
    LET limit == char_limit(premium)
        last_punct == [i \in 1..3 |-> rfind(text, SentenceEnds[i], limit - 10)]
        good == {i \in 1..3 : 10 * last_punct[i] > 7 * limit}
    IN  IF text.len <= limit THEN [prefix |-> text.len, ellipsis |-> FALSE]
        ELSE IF good # {}
             THEN [prefix |-> last_punct[CHOOSE i \in good : \A k \in good : i <= k] + 1,
                   ellipsis |-> FALSE]
             ELSE [prefix |-> limit - 3, ellipsis |-> TRUE]

SentLength(sent) == sent.prefix + (IF sent.ellipsis THEN 3 ELSE 0)

\* the texts tried for a limit: lengths around it, and each sentence end
\* absent or at an index around 70% of the limit or around the end of the
\* prefix that is searched
ReplyLengths(limit) == {limit - 1, limit, limit + 1, limit + TextOver}

EndIndices(limit) ==
    {(7 * limit) \div 10, (7 * limit) \div 10 + 1, limit - 12, limit - 11}

ReplyTexts(limit) ==
    {[len |-> n, ends |-> e] :
        n \in ReplyLengths(limit),
        e \in {x \in [{"dot", "bang", "quest"} -> SUBSET EndIndices(limit)] :
                  /\ \A p \in DOMAIN x : Cardinality(x[p]) <= 1
                  /\ \A p, q \in DOMAIN x : p # q => x[p] \cap x[q] = {}}}

\* reply_to_tweet(client, tweet_id, text)
CallReplyToTweet ==
    /\ \E premium \in BOOLEAN :
          \E text \in ReplyTexts(char_limit(premium)) :
             last' = Call("reply_to_tweet", <<text, premium>>, reply_to_tweet(text, premium))
    /\ UNCHANGED <<cfg, processed, allowed_authors, hourly_reply_count,
                   hourly_check_time, last_check_time, clk, pc, queue, cur, disk,
                   posted, faults>>

UnitNext ==
    \/ CallSetAllowedAuthor
    \/ AgeGate

UnitSpec == UnitInit /\ [][UnitNext]_vars


(***************************************************************************)
(* Direct calls of the reply pipeline's functions on a bot just            *)
(* constructed: each step is one call, with the backend's answers drawn    *)
(* from Responses.                                                         *)
(***************************************************************************)
PipelineInit ==
    /\ cfg = "cutoff_off"
    /\ processed = {}
    /\ allowed_authors = [c \in Conversations |-> None]
    /\ hourly_reply_count = 0
    /\ hourly_check_time = StartTime
    /\ last_check_time = 0
    /\ clk = [now |-> StartTime, backoff |-> 1, reset |-> 0, remaining |-> 100]
    /\ pc = "idle"
    /\ queue = <<>>
    /\ cur = NoCur
    /\ disk = <<>>
    /\ posted = [m \in Mentions |-> 0]
    /\ faults = 0
    /\ last = Call("init", <<>>, None)

\* craft_tweet(summary_text) with the backend answering r1, then r2; a
\* request that is not made has no answer ("http_error" stands for it)
CallCraftTweet ==
    /\ \E summary_text \in Responses \ {"http_error"}, r1 \in Responses, r2 \in Responses :
          LET final_reply == craft_tweet(summary_text, r1, r2) IN
          /\ final_reply.calls < 1 => r1 = "http_error"
          /\ final_reply.calls < 2 => r2 = "http_error"
          /\ last' = Call("craft_tweet", <<summary_text, r1, r2>>, final_reply)
    /\ UNCHANGED <<cfg, processed, allowed_authors, hourly_reply_count,
                   hourly_check_time, last_check_time, clk, pc, queue, cur, disk,
                   posted, faults>>

\* lines 245-260 of _generate_and_send_reply with the backend answering an
\* to the analysis request, then r1 and r2 to craft_tweet's requests
CallGenerateReply ==
    /\ \E an \in Responses, r1 \in Responses, r2 \in Responses :
          LET g == generate_reply(an, r1, r2) IN
          /\ g.calls < 2 => r1 = "http_error"
          /\ g.calls < 3 => r2 = "http_error"
          /\ last' = Call("generate_reply", <<an, r1, r2>>, g)
    /\ UNCHANGED <<cfg, processed, allowed_authors, hourly_reply_count,
                   hourly_check_time, last_check_time, clk, pc, queue, cur, disk,
                   posted, faults>>

\* _extract_full_context(tweet_response) on the response for tweet t, with
\* the fetches answered as scenario f says
CallExtractFullContext ==
    /\ \E t \in ContextTweets \ {1}, f \in FetchScenarios :
          last' = Call("extract_full_context", <<t, f>>, extract_full_context(t, 0, f))
    /\ UNCHANGED <<cfg, processed, allowed_authors, hourly_reply_count,
                   hourly_check_time, last_check_time, clk, pc, queue, cur, disk,
                   posted, faults>>

\* lines 343-401 of _process_single_tweet for mention m, with the fetches
\* answered as scenario f says: the context and the url list handed on
CallExtractContext ==
    /\ \E m \in Mentions, f \in FetchScenarios :
          last' = Call("extract_context", <<m, f>>,
                       [context |-> extract_context(m, f), urls |-> context_urls(m, f)])
    /\ UNCHANGED <<cfg, processed, allowed_authors, hourly_reply_count,
                   hourly_check_time, last_check_time, clk, pc, queue, cur, disk,
                   posted, faults>>

PipelineNext ==
    \/ CallCraftTweet
    \/ CallGenerateReply
    \/ CallExtractFullContext
    \/ CallExtractContext

PipelineSpec == PipelineInit /\ [][PipelineNext]_vars

\* direct calls of reply_to_tweet
ReplyNext == CallReplyToTweet

ReplySpec == PipelineInit /\ [][ReplyNext]_vars


(***************************************************************************)
(* The main loop of a bot that has been running for BusyTime seconds and   *)
(* has one reply left in its hourly window.                                *)
(***************************************************************************)
BusyInit ==
    /\ cfg = "cutoff_off"
    /\ processed = {}
    /\ allowed_authors = [c \in Conversations |-> None]
    /\ hourly_reply_count = MAX_REPLIES_PER_HOUR - 1
    /\ hourly_check_time = StartTime - BusyTime
    /\ last_check_time \in {StartTime - MIN_CHECK_INTERVAL, StartTime - 1}
    /\ clk = [now |-> StartTime, backoff |-> 1, reset |-> 0, remaining |-> 100]
    /\ pc = "idle"
    /\ queue = <<>>
    /\ cur = NoCur
    /\ disk = <<save(processed, allowed_authors)>>
    /\ posted = [m \in Mentions |-> 0]
    /\ faults = 0
    /\ last = Event("init", 0, "none", NoCur, 0, FALSE)

BusySpec == BusyInit /\ [][Next]_vars


(***************************************************************************)
(* Retries.  The feed returns mention Retried in every fetch, alone or     *)
(* with another mention of its conversation; the backend and the post can  *)
(* fail during an outage that ends Outage seconds after the start and      *)
(* succeed from then on; the loop of run() keeps running.                  *)
(***************************************************************************)
Retried == 1

RetryFeed ==
    {b \in Batches :
        /\ \E i \in DOMAIN b : b[i] = Retried
        /\ \A i \in DOMAIN b : TweetConversation(b[i]) = TweetConversation(Retried)}

RetryInit == Init /\ cfg # "shipped"

RetryFetched == FetchedBefore(RetryHorizon, RetryFeed)

RetryGenerateReply ==
    /\ GenerateReply
    /\ pc' # "post" => clk.now < StartTime + Outage

RetrySendReply ==
    /\ SendReply
    /\ last'.posts = 0 => clk.now < StartTime + Outage

RetryNext ==
    \/ RetryFetched
    \/ SkipTweet
    \/ ExtractContext
    \/ RetryGenerateReply
    \/ RetrySendReply
    \/ PollEnd

RetrySpec == RetryInit /\ [][RetryNext]_vars /\ WF_vars(RetryNext)


(***************************************************************************)
(* The store across restarts: a process is started on a state file, its   *)
(* State is constructed and loaded, and the store is then changed and      *)
(* saved by direct calls.                                                  *)
(***************************************************************************)
StoreTweets == {1, 2}

\* the state files a process can find
Files ==
    {<<>>,
     <<JsonArray(<<>>)>>,
     <<JsonArray(<<JsonString(1), JsonString(2)>>)>>,
     <<JsonArray(<<JsonNumber(2), JsonString(2), JsonNumber(3)>>)>>,
     <<JsonObject({}, <<>>, "object", {})>>,
     <<JsonObject({"processed_tweets"}, <<JsonNumber(1)>>, "object", {})>>,
     <<JsonObject({"allowed_authors"}, <<>>, "object", {<<5, JsonString("a1")>>})>>,
     <<JsonObject({"processed_tweets", "allowed_authors"}, <<JsonString(1)>>,
                  "array", {})>>,
     <<JsonOther>>,
     <<Corrupt>>}

StoreInit ==
    /\ cfg = "cutoff_off"
    /\ processed = {}
    /\ allowed_authors = [c \in Conversations |-> None]
    /\ hourly_reply_count = 0
    /\ hourly_check_time = StartTime
    /\ last_check_time = 0
    /\ clk = [now |-> StartTime, backoff |-> 1, reset |-> 0, remaining |-> 100]
    /\ pc = "start"
    /\ queue = <<>>
    /\ cur = NoCur
    /\ disk \in Files
    /\ posted = [m \in Mentions |-> 0]
    /\ faults = 0
    /\ last = Call("init", <<>>, None)

\* a process starts: State() and state.load() of VeniceBot.__init__; an
\* exception of load leaves the constructor and main ends the process
StartProcess ==
    /\ LET data == load(disk, Conversations) IN
          /\ processed' = data.processed_tweets
          /\ allowed_authors' = data.allowed_authors
          /\ pc' = IF data.raised = "none" THEN "idle" ELSE "exited"
          /\ last' = Call("load", disk, data.raised)
    /\ UNCHANGED <<cfg, hourly_reply_count, hourly_check_time, last_check_time,
                   clk, queue, cur, disk, posted, faults>>

\* state.add_tweet(tweet_id)
CallAddTweet ==
    /\ pc = "idle"
    /\ \E tweet_id \in StoreTweets :
          /\ processed' = add_tweet(processed, tweet_id)
          /\ last' = Call("add_tweet", <<tweet_id>>, None)
    /\ UNCHANGED <<cfg, allowed_authors, hourly_reply_count, hourly_check_time,
                   last_check_time, clk, pc, queue, cur, disk, posted, faults>>

\* state.set_allowed_author(conversation_id, author_id)
CallSetGate ==
    /\ pc = "idle"
    /\ CallSetAllowedAuthor

\* state.save()
CallSave ==
    /\ pc = "idle"
    /\ disk' = <<save(processed, allowed_authors)>>
    /\ last' = Call("save", <<>>, None)
    /\ UNCHANGED <<cfg, processed, allowed_authors, hourly_reply_count,
                   hourly_check_time, last_check_time, clk, pc, queue, cur, posted,
                   faults>>

StoreNext ==
    \/ StartProcess
    \/ CallAddTweet
    \/ CallSetGate
    \/ CallSave

StoreSpec == StoreInit /\ [][StoreNext]_vars


(***************************************************************************)
(* Start of the process: VeniceBot.__init__ loads the store and resolves   *)
(* the bot's identity, and run() follows.  The constructor reads the       *)
(* session start when the identity is resolved, so a process that waits    *)
(* for a throttle to reset has started that much earlier.                  *)
(***************************************************************************)
\* get_me: a response with data, one without, TooManyRequests, any other
\* exception
MeOutcomes == {"ok", "none", "throttled", "error"}

get_bot_user_id_retry_always(now, first, reset_time, second) ==
    CASE first = "ok" ->
           [resolved |-> TRUE, requests |-> 1, waited |-> 0]
      [] first = "throttled" ->
           LET wait_time == IF reset_time > now
                            THEN reset_time - now + RESET_BUFFER ELSE 0 IN
           [resolved |-> second = "ok", requests |-> 2, waited |-> wait_time]
      [] OTHER ->
           [resolved |-> FALSE, requests |-> 1, waited |-> 0]

\* _get_bot_user_id at time now, the first get_me answered by first, a
\* throttling response carrying reset_time, the retry answered by second:
\* resolved is FALSE when it ends in exit(1)
get_bot_user_id(now, first, reset_time, second) ==
    CASE first = "ok" ->
           [resolved |-> TRUE, requests |-> 1, waited |-> 0]
      [] first = "throttled" ->
           IF reset_time > now
           THEN [resolved |-> second = "ok", requests |-> 2,
                 waited |-> reset_time - now + RESET_BUFFER]
           ELSE [resolved |-> FALSE, requests |-> 1, waited |-> 0]
      [] OTHER ->
           [resolved |-> FALSE, requests |-> 1, waited |-> 0]

ProcessStarts == {StartTime - (ResetDelay + RESET_BUFFER), StartTime}
StartupFiles == {<<>>, <<JsonArray(<<JsonString(1)>>)>>, <<Corrupt>>}

StartupInit ==
    /\ cfg \in Configs
    /\ processed = {}
    /\ allowed_authors = [c \in Conversations |-> None]
    /\ hourly_reply_count = 0
    /\ hourly_check_time = 0
    /\ last_check_time = 0
    /\ \E t \in ProcessStarts :
          clk = [now |-> t, backoff |-> 1, reset |-> 0, remaining |-> 100]
    /\ pc = "start"
    /\ queue = <<>>
    /\ cur = NoCur
    /\ disk \in StartupFiles
    /\ posted = [m \in Mentions |-> 0]
    /\ faults = 0
    /\ last = Call("init", <<>>, None)

\* VeniceBot(): an exception of load, or exit(1) of _get_bot_user_id, ends
\* the process before run()
Construct ==
    /\ pc = "start"
    /\ \E first \in MeOutcomes, kind \in ResetKinds, second \in MeOutcomes :
          LET data == load(disk, Conversations)
              reset_time == ResetTime(kind, clk.now)
              me == IF data.raised = "none"
                    THEN get_bot_user_id(clk.now, first, reset_time, second)
                    ELSE [resolved |-> FALSE, requests |-> 0, waited |-> 0]
              started == data.raised = "none" /\ me.resolved
          IN  /\ started => clk.now + me.waited = session_start
              /\ processed' = data.processed_tweets
              /\ allowed_authors' = data.allowed_authors
              /\ clk' = Sleep(clk, me.waited)
              /\ hourly_check_time' = IF started THEN clk.now + me.waited ELSE 0
              /\ pc' = IF started THEN "idle" ELSE "exited"
              /\ last' = Call("VeniceBot", <<first, reset_time, second>>,
                              [raised |-> data.raised, me |-> me])
    /\ UNCHANGED <<cfg, hourly_reply_count, last_check_time, queue, cur, disk,
                   posted, faults>>

StartupNext ==
    \/ Construct
    \/ Next

StartupSpec == StartupInit /\ [][StartupNext]_vars


(***************************************************************************)
(* Properties.                                                             *)
(***************************************************************************)
Processed == last.op = "process"
M == last.tweet
Pre == last.pre

\* C1: no mention ever has more than one reply, and processing a mention
\* whose reply is recorded makes no backend request, creates no reply and
\* changes neither the store nor the counter.
AtMostOnceReply ==
    /\ \A m \in Mentions : posted[m] <= 1
    /\ (Processed /\ M \in Pre.processed /\ posted[M] > 0) =>
          /\ last.calls = 0
          /\ last.posts = 0
          /\ processed = Pre.processed
          /\ allowed_authors = Pre.allowed_authors
          /\ hourly_reply_count = Pre.hourly_reply_count

AtMostOnceReplyWitness ==
    Processed /\ last.outcome = "already" /\ posted[M] = 1

\* C2: a mention of a gated conversation whose author is not the gated one
\* ends processed, with no backend request and no reply, and never is the
\* mention for which the pipeline runs.
GatedTo(gate, m) == gate[TweetConversation(m)]

Stranger(gate, m) == GatedTo(gate, m) # None /\ GatedTo(gate, m) # TweetAuthor(m)

GateExclusivity ==
    /\ (Processed /\ Stranger(Pre.allowed_authors, M)) =>
          last.calls = 0 /\ last.posts = 0 /\ M \in processed
    /\ pc \in {"generate", "post"} => ~Stranger(allowed_authors, cur.tweet)

GateExclusivityWitness ==
    /\ Processed
    /\ last.outcome = "not_allowed"
    /\ Stranger(Pre.allowed_authors, M)
    /\ M \notin Pre.processed

\* C3: after a confirmed post for mention M the mention is processed, the
\* hourly counter is one higher, and the gate of M's conversation is M's
\* author if it was unset and what it was otherwise.
SuccessPath ==
    (Processed /\ last.posts = 1) =>
        /\ M \in processed
        /\ hourly_reply_count = Pre.hourly_reply_count + 1
        /\ GatedTo(allowed_authors, M) =
              IF GatedTo(Pre.allowed_authors, M) = None
              THEN TweetAuthor(M)
              ELSE GatedTo(Pre.allowed_authors, M)

SuccessPathWitness ==
    /\ Processed
    /\ last.posts = 1
    /\ GatedTo(Pre.allowed_authors, M) = TweetAuthor(M)
    /\ M \notin Pre.processed
    /\ hourly_reply_count = 2

\* C4: when the pipeline fails or the post is not confirmed, the mention is
\* not processed and the store and the hourly counter are as they were.
RecoverableFailures ==
    {"generation_failed", "post_forbidden", "post_throttled", "post_tweepy_error",
     "post_error"}

FailureLeavesForRetry ==
    (Processed /\ last.outcome \in RecoverableFailures) =>
        /\ M \notin processed
        /\ processed = Pre.processed
        /\ allowed_authors = Pre.allowed_authors
        /\ hourly_reply_count = Pre.hourly_reply_count

FailureLeavesForRetryWitness ==
    Processed /\ last.outcome = "post_throttled" /\ last.calls > 0 /\ clk.now > Pre.now + 1


\* C5: a transient failure at any step of processing a mention (a throttle,
\* a network error, a platform error) never puts the mention in the
\* processed set.
TransientFailures ==
    {"exception", "context_throttled", "generation_failed", "post_throttled",
     "post_tweepy_error", "post_error"}

TransientFailureNotMarked ==
    (Processed /\ last.outcome \in TransientFailures /\ M \notin Pre.processed) =>
        M \notin processed

\* C6: a throttle while fetching a mention's context ends the poll cycle: the
\* mention is not marked processed and no other mention of the batch is
\* processed after it in that cycle.
ContextThrottleAbortsCycle ==
    [][(pc = "batch" /\ Processed /\ last.outcome = "context_throttled") =>
          (M \notin processed /\ last'.op \notin {"process", "context"})]_vars

\* C7: a throttle while fetching the quoted tweet of a conversation-root
\* mention, or a tweet nested under it, leaves context extraction as an
\* error: the mention does not reach the pipeline and gets no reply in that
\* cycle.
QuoteThrottlePropagates ==
    /\ pc \in {"generate", "post"} => ~cur.throttled
    /\ (Processed /\ last.throttled /\ TweetConversation(M) = M) =>
          last.calls = 0 /\ last.posts = 0

\* C8: a mention not yet processed whose author is missing, protected, the
\* bot, not the gated author, or whose age is over the maximum (or unknown)
\* ends processed, with no backend request, no reply, and the gate and the
\* hourly counter as they were.
MaxAgeSeconds == MAX_TWEET_AGE_MINUTES * 60

TerminalCase ==
    \/ last.outcome \in {"no_author", "protected"}
    \/ TweetAuthor(M) = BotId
    \/ Stranger(Pre.allowed_authors, M)
    \/ ~TweetHasCreatedAt(M)
    \/ Pre.now - TweetCreatedAt(M) > MaxAgeSeconds

TerminalSkip ==
    (Processed /\ M \notin Pre.processed /\ TerminalCase) =>
        /\ M \in processed
        /\ last.calls = 0
        /\ last.posts = 0
        /\ allowed_authors = Pre.allowed_authors
        /\ hourly_reply_count = Pre.hourly_reply_count

TerminalSkipWitness ==
    /\ Processed
    /\ M \notin Pre.processed
    /\ last.outcome = "too_old"
    /\ TweetHasCreatedAt(M)
    /\ Pre.now - TweetCreatedAt(M) = MaxAgeSeconds + 1

\* C9: the processed set only grows.
ProcessedMonotonic == [][processed \subseteq processed']_vars

ProcessedMonotonicWitness ==
    Cardinality(processed) >= 3 /\ pc = "idle" /\ disk # <<>>

\* C10: a gate entry appears only with a confirmed post of a reply in its
\* conversation, as the author of the mention replied to, and an entry that
\* exists is neither removed nor changed.
GateStable ==
    [][\A c \in Conversations :
          /\ allowed_authors[c] # None => allowed_authors'[c] = allowed_authors[c]
          /\ (allowed_authors[c] = None /\ allowed_authors'[c] # None) =>
                /\ last'.op = "process"
                /\ last'.posts = 1
                /\ TweetConversation(last'.tweet) = c
                /\ allowed_authors'[c] = TweetAuthor(last'.tweet)]_vars

GateStableWitness ==
    /\ allowed_authors[1] = "a1"
    /\ posted[1] = 1
    /\ posted[3] = 1
    /\ 2 \in processed

\* C11: set_allowed_author on a conversation that already has an entry
\* leaves the stored author as it was, whatever author it is called with.
FirstWriterWins ==
    (last.op = "set_allowed_author"
        /\ last.pre.allowed_authors[last.args[1]] # None) =>
        allowed_authors[last.args[1]] = last.pre.allowed_authors[last.args[1]]

\* a cycle of process_mentions that called get_mentions
Fetches(e) == e.op = "poll" /\ e.outcome \in {"throttled", "error", "empty", "fetched"}

ThrottledPoll == last.op = "poll" /\ last.outcome = "throttled"
LiveReset == last.reset_at > last.clock.now

\* C12: a cycle that ends without a rate-limit error (an empty feed, or a
\* batch handled to its end) leaves the backoff multiplier at 1.
BackoffResetOnCompletion ==
    (last.op = "poll" /\ last.outcome \in {"empty", "done"}) => clk.backoff = 1

\* C13: when the mentions fetch is throttled with a reset time in the future,
\* the bot sleeps reset - now + 5 seconds, the multiplier becomes 1, and the
\* reported reset time and remaining count are recorded.
ThrottleWithFutureReset ==
    (ThrottledPoll /\ LiveReset) =>
        /\ clk.now - last.clock.now = (last.reset_at - last.clock.now) + RESET_BUFFER
        /\ clk.backoff = 1
        /\ clk.reset = last.reset_at
        /\ clk.remaining = last.remaining

ThrottleWithFutureResetWitness ==
    ThrottledPoll /\ LiveReset /\ last.clock.backoff = 4 /\ last.clock.remaining = 100

\* C14: a throttle whose reset time is not in the future makes the bot sleep
\* min(MIN_CHECK_INTERVAL * multiplier, 900) and then doubles the multiplier
\* up to 16; the multiplier is always one of 1, 2, 4, 8, 16, and as long as
\* no throttle with a future reset has been handled it is min(2^k, 16) after
\* k back-offs.
BackoffValues == {2^k : k \in 0..4}

StaleThrottleBackoff ==
    /\ clk.backoff \in BackoffValues
    /\ (ThrottledPoll /\ ~LiveReset) =>
          /\ clk.now - last.clock.now =
                Min(MIN_CHECK_INTERVAL * last.clock.backoff, RATE_LIMIT_SLEEP_CAP)
          /\ clk.backoff = Min(2 * last.clock.backoff, MAX_BACKOFF)
    /\ clk.reset = 0 => clk.backoff = Min(2^faults, MAX_BACKOFF)

StaleThrottleBackoffWitness ==
    /\ ThrottledPoll
    /\ ~LiveReset
    /\ last.clock.backoff = MAX_BACKOFF
    /\ clk.now - last.clock.now = RATE_LIMIT_SLEEP_CAP
    /\ faults = 5

\* C15: an error of the mentions fetch that is not a throttle gives the same
\* sleep and the same multiplier as a throttle with a stale reset time would
\* give in the same state.
ErrorBacksOffLikeStaleThrottle ==
    (last.op = "poll" /\ last.outcome = "error") =>
        /\ clk.now - last.clock.now =
              Min(MIN_CHECK_INTERVAL * last.clock.backoff, RATE_LIMIT_SLEEP_CAP)
        /\ clk.backoff = Min(2 * last.clock.backoff, MAX_BACKOFF)

\* C16 as stated: when the mentions fetch fails, the processed set, the gate
\* and the hourly counter are what they were when the cycle began.
FetchFailureChangesNothing ==
    (last.op = "poll" /\ last.outcome \in {"throttled", "error"}) =>
        /\ processed = Pre.processed
        /\ allowed_authors = Pre.allowed_authors
        /\ hourly_reply_count = Pre.hourly_reply_count

\* C16: when the mentions fetch fails, the processed set and the gate are what
\* they were when the cycle began, and so is the hourly counter unless the
\* hourly window ended, in which case the cycle zeroed it before the fetch.
FetchFailureLeavesStore ==
    (last.op = "poll" /\ last.outcome \in {"throttled", "error"}) =>
        /\ processed = Pre.processed
        /\ allowed_authors = Pre.allowed_authors
        /\ hourly_reply_count =
              IF last.clock.now - Pre.hourly_check_time >= HOUR
              THEN 0
              ELSE Pre.hourly_reply_count

FetchFailureLeavesStoreWitness ==
    /\ last.op = "poll"
    /\ last.outcome = "error"
    /\ processed = {1, 2}
    /\ allowed_authors[1] = "a1"
    /\ hourly_reply_count = MAX_REPLIES_PER_HOUR - 1

\* C17: two cycles in a row that both call get_mentions make their calls at
\* least MIN_CHECK_INTERVAL seconds apart.
MinimumPollSpacing ==
    [][(Fetches(last) /\ Fetches(last')) =>
          last'.clock.now - last.clock.now >= MIN_CHECK_INTERVAL]_vars

\* C18: at the start of a cycle the hourly counter is zeroed and the window
\* restarted exactly when 3600 seconds or more have passed since the window
\* began; if the counter then is at the cap or over it, the cycle calls the
\* platform not at all and leaves the store, the counter, the window, the
\* time of the last check and the multiplier as they are.
HourlyQuotaGate ==
    [][(last'.op = "poll" /\ last'.outcome # "done") =>
          /\ IF last'.clock.now - hourly_check_time >= HOUR
             THEN hourly_reply_count' = 0 /\ hourly_check_time' = last'.clock.now
             ELSE UNCHANGED <<hourly_reply_count, hourly_check_time>>
          /\ hourly_reply_count' >= MAX_REPLIES_PER_HOUR =>
                /\ ~Fetches(last')
                /\ clk' = last'.clock
                /\ clk'.backoff = clk.backoff
                /\ UNCHANGED <<processed, allowed_authors, hourly_reply_count,
                               hourly_check_time, last_check_time, posted, queue>>]_vars

HourlyQuotaGateWitness ==
    /\ last.op = "poll"
    /\ last.outcome = "capped"
    /\ hourly_reply_count = MAX_REPLIES_PER_HOUR
    /\ clk.now > Pre.now

\* C19: the age test skips a mention, and marks it processed, exactly when
\* its age is strictly over the maximum or its creation time is missing or
\* cannot be read: one second over is skipped, exactly the maximum and one
\* second under are eligible and left unmarked.
AgeOf(m) == Pre.now - TweetCreatedAt(m)

LengthEnforced ==
    (last.op = "craft_tweet" /\ last.result.text # ERROR_MESSAGE) =>
        TextLength(last.result.text) <= STANDARD_CHAR_LIMIT

\* C21: craft_tweet regenerates exactly once when its draft (the content of
\* the [FINAL_REPLY] block if it has any, or else the backend's first answer) is over the budget
\* or holds a banned phrase, and not at all otherwise; it returns the
\* regeneration's answer as it is, and makes at most 2 backend requests.
Answer(r) == IF r = "http_error" THEN ERROR_MESSAGE ELSE r

BoundedSelfCorrection ==
    last.op = "craft_tweet" =>
        LET candidate == extract_final_reply(last.args[1])
            block == candidate # None /\ candidate # "empty"
            has_draft == block \/ last.args[2] # "http_error"
            draft == IF block THEN candidate ELSE last.args[2]
            first == IF block THEN 0 ELSE 1
            regenerations == last.result.calls - first
            answer == IF block THEN last.args[2] ELSE last.args[3]
        IN  /\ last.result.calls <= 2
            /\ has_draft =>
                  /\ regenerations = IF IsBanned(draft) \/ IsLong(draft) THEN 1 ELSE 0
                  /\ regenerations = 1 => last.result.text = Answer(answer)
                  /\ regenerations = 0 => last.result.text = draft
            /\ ~has_draft => last.result.calls = 1 /\ last.result.text = ERROR_MESSAGE

BoundedSelfCorrectionWitness ==
    /\ last.op = "craft_tweet"
    /\ last.result.calls = 2
    /\ IsBanned(last.args[2])
    /\ IsBanned(last.result.text)

\* C22: when the analysis or the crafting returns the error sentinel or an
\* empty text, the pipeline stops there: no later stage makes a request and
\* the outcome is a failure, so that nothing is posted.
Unusable(text) == text = ERROR_MESSAGE \/ text = "empty"

PipelineAbort ==
    last.op = "generate_reply" =>
        /\ Unusable(get_expert_analysis(last.args[1])) =>
              last.result.calls = 1 /\ ~last.result.ok
        /\ Unusable(last.result.text) => ~last.result.ok

\* C23: on a chain of quotes of any length, on a tweet that quotes itself and
\* on a cycle, _extract_full_context returns: it fetches at most 3 tweets, one
\* per level, none below the tweet of depth 3, and when no fetch fails it
\* returns without error the texts down to that tweet, whose own quote is left
\* unexpanded.
RECURSIVE QuotePath(_, _)
QuotePath(t, n) ==
    IF n = 0 \/ TweetQuoted(t) = {} THEN <<t>>
    ELSE <<t>> \o QuotePath(CHOOSE x \in TweetQuoted(t) : TRUE, n - 1)

RecursionBound ==
    last.op = "extract_full_context" =>
        LET t == last.args[1]
            f == last.args[2]
            r == last.result
            path == QuotePath(t, MAX_DEPTH)
        IN  /\ Len(r.fetched) <= MAX_DEPTH
            /\ Len(r.texts) <= MAX_DEPTH + 1
            /\ \A i \in 1..Len(r.fetched) : r.fetched[i] = path[i + 1]
            /\ (\A i \in 2..Len(path) : f[path[i]] = "ok") =>
                  /\ r.raised = "none"
                  /\ r.texts = path
                  /\ r.fetched = Tail(path)

RecursionBoundWitness ==
    /\ last.op = "extract_full_context"
    /\ last.args[1] = SelfQuote
    /\ last.result.raised = "none"
    /\ last.result.texts = <<SelfQuote, SelfQuote, SelfQuote, SelfQuote>>
    /\ Len(last.result.fetched) = MAX_DEPTH

\* C24: a load that follows a save leaves the store equal to the one that
\* was saved, and the load of a file that is a bare array leaves the processed
\* set equal to the ids of the array and the gate empty.
StateRoundTrip ==
    [][last'.op = "load" =>
          /\ last.op = "save" =>
                /\ last'.result = "none"
                /\ processed' = processed
                /\ allowed_authors' = allowed_authors
          /\ (disk # <<>> /\ disk[1].type = "array") =>
                /\ last'.result = "none"
                /\ processed' = {str(j) : j \in Elements(disk[1].items)}
                /\ allowed_authors' = [c \in Conversations |-> None]]_vars

StateRoundTripWitness ==
    /\ last.op = "load"
    /\ last.result = "none"
    /\ processed = {1, 2}
    /\ allowed_authors[5] = "a2"
    /\ disk = <<save(processed, allowed_authors)>>

\* C25: the load of a state file that is missing, of unknown shape or not
\* parseable raises nothing and leaves both collections empty, and the bot
\* goes on to its polling loop.
LoadNeverFails ==
    (/\ last.op = "load"
     /\ \/ last.args = <<>>
        \/ last.args[1].type \in {"other", "corrupt"}) =>
        /\ last.result = "none"
        /\ processed = {}
        /\ allowed_authors = [c \in Conversations |-> None]
        /\ pc = "idle"

\* C26: between two poll cycles, whatever the outcome of the last one, and
\* when the loop has been left after an interruption, wherever it arrived,
\* the state file holds the in-memory processed set and gate.
Persisted == load(disk, Conversations)

DurableFlush ==
    (\/ pc = "idle" /\ last.op = "poll"
     \/ pc = "stopped") =>
        /\ Persisted.raised = "none"
        /\ Persisted.processed_tweets = processed
        /\ Persisted.allowed_authors = allowed_authors
        /\ (last.outcome # "config_error" /\ last.outcome # "unsaved") =>
              disk = <<save(processed, allowed_authors)>>

DurableFlushWitness ==
    /\ pc = "stopped"
    /\ last.outcome = "saved"
    /\ queue # <<>>
    /\ processed # {}
    /\ \E c \in Conversations : allowed_authors[c] # None
    /\ Persisted.processed_tweets = processed
    /\ Persisted.allowed_authors = allowed_authors

\* C27: the mentions of a batch are processed one at a time, oldest first:
\* the mentions waiting are in ascending order of age-rank, a processing
\* starts on the oldest of them while no other is in progress, and it starts
\* from the processed set and gate as the processing before it left them.
Ascending(seq) == \A i, j \in 1..Len(seq) : i < j => seq[i] < seq[j]

OldestFirst ==
    [][/\ Ascending(queue')
       /\ (pc' \in {"generate", "post"}) => cur'.tweet = Head(queue')
       /\ (pc = "batch" /\ last'.op \in {"context", "process"}) =>
             /\ cur = NoCur
             /\ last'.tweet = Head(queue)
             /\ \A i \in 2..Len(queue) : queue[i] > last'.tweet
             /\ last'.pre.processed = processed
             /\ last'.pre.allowed_authors = allowed_authors]_vars

OldestFirstWitness ==
    /\ last_check_time = 0
    /\ Processed
    /\ M = 2
    /\ last.outcome = "not_allowed"
    /\ posted[1] = 1
    /\ Pre.allowed_authors[1] = TweetAuthor(1)
    /\ 1 \in Pre.processed

\* C28: at startup get_me is requested at most twice, the second time only
\* after a throttling response with a reset time in the future and a wait to
\* 5 s past it; when the identity is not resolved the process has ended: the
\* state file is as it was found, no reply exists and nothing happens after.
StartupIdentity ==
    /\ last.op = "VeniceBot" =>
          LET me == last.result.me
              first == last.args[1]
              reset_time == last.args[2]
          IN  /\ me.requests <= 2
              /\ me.requests = 2 =>
                    /\ first = "throttled"
                    /\ reset_time > Pre.now
                    /\ clk.now = reset_time + RESET_BUFFER
              /\ ~me.resolved <=> pc = "exited"
    /\ pc = "exited" =>
          /\ last.op = "VeniceBot"
          /\ disk \in StartupFiles
          /\ last_check_time = 0
          /\ \A m \in Mentions : posted[m] = 0
    /\ pc \notin {"start", "exited"} => hourly_check_time = session_start

StartupIdentityWitness ==
    /\ pc = "exited"
    /\ last.result.raised = "none"
    /\ last.result.me.requests = 2
    /\ last.args[3] = "throttled"
    /\ disk = <<JsonArray(<<JsonString(1)>>)>>

\* C29: whatever the backend answers, the text handed to the platform's
\* post call is neither the error sentinel nor empty.
NeverPostsSentinel ==
    pc = "post" =>
        /\ cur.text # ERROR_MESSAGE
        /\ cur.text # None
        /\ TextLength(cur.text) > 0

NeverPostsSentinelWitness ==
    /\ pc = "post"
    /\ cur.calls = 3
    /\ cur.text = "plain_long"

\* C30: the processing of every mention that was not yet processed ends
\* with the pacing pause, whatever its outcome.
PauseAfterEveryMention ==
    (Processed /\ M \notin Pre.processed) => last.paused

\* C31: when context extraction goes on to the reply, the url list handed
\* to the pipeline holds the entity urls of every tweet visited (the mention
\* and every tweet fetched with data, at any depth), each exactly once.
UrlsOfEveryVisitedTweet ==
    (last.op = "extract_context" /\ last.result.context.status = "ok") =>
        LET m == last.args[1]
            f == last.args[2]
            fetched == last.result.context.fetched
            visited == {m} \cup {fetched[i] : i \in {k \in DOMAIN fetched : f[fetched[k]] = "ok"}}
            urls == last.result.urls
        IN  /\ \A i, j \in DOMAIN urls : i # j => urls[i] # urls[j]
            /\ {urls[i] : i \in DOMAIN urls} =
                  UNION {Elements(TweetUrls(t)) : t \in visited}

\* C32: when the analysis holds a [FINAL_REPLY] block whose content is not
\* empty, within the budget and free of banned phrases, craft_tweet returns
\* that content without a backend request, and the pipeline makes one
\* request in all.
SingleRoundTrip ==
    LET Fits(text) == TextLength(text) <= STANDARD_CHAR_LIMIT /\ ~IsBanned(text)
    IN  /\ last.op = "craft_tweet" =>
              LET content == extract_final_reply(last.args[1]) IN
              (content # None /\ content # "empty" /\ Fits(content)) =>
                  last.result = [text |-> content, calls |-> 0]
        /\ last.op = "generate_reply" =>
              LET content == extract_final_reply(get_expert_analysis(last.args[1])) IN
              (content # None /\ content # "empty" /\ Fits(content)) =>
                  last.result = [ok |-> TRUE, text |-> content, calls |-> 1]

SingleRoundTripWitness ==
    /\ last.op = "generate_reply"
    /\ last.args[1] = "final_ok"
    /\ last.result.ok
    /\ last.result.calls = 1
    /\ last.result.text = "plain_ok"

\* C32 as stated: every [FINAL_REPLY] block whose content is within the
\* budget and free of banned phrases, an empty one included, is returned as
\* it is without a backend request.
SingleRoundTripAnyBlock ==
    last.op = "craft_tweet" =>
        LET content == extract_final_reply(last.args[1]) IN
        (content # None /\ TextLength(content) <= STANDARD_CHAR_LIMIT
                        /\ ~IsBanned(content)) =>
            last.result = [text |-> content, calls |-> 0]

\* C33: the hourly reply counter never exceeds the hourly cap.
HourlyCap == hourly_reply_count <= MAX_REPLIES_PER_HOUR

\* C34: in a run that starts from an empty store, the mentions of one
\* conversation that have a reply all have one author, the author the
\* conversation is gated to.
SingleAsker ==
    \A m \in Mentions :
        posted[m] > 0 =>
            /\ GatedTo(allowed_authors, m) = TweetAuthor(m)
            /\ \A n \in Mentions :
                  (posted[n] > 0 /\ TweetConversation(n) = TweetConversation(m)) =>
                      TweetAuthor(n) = TweetAuthor(m)

SingleAskerWitness ==
    /\ posted[1] = 1
    /\ posted[3] = 1
    /\ posted[2] = 0
    /\ 2 \in processed
    /\ TweetAuthor(2) # TweetAuthor(1)
    /\ TweetConversation(2) = TweetConversation(1)

\* C35: the text reply_to_tweet sends is never longer than the active
\* limit: a text within the limit is sent whole; a longer one is cut after
\* a sentence end that starts beyond 70% of the limit, or else to its first
\* limit - 3 characters followed by '...'.
ReplyWithinLimit ==
    last.op = "reply_to_tweet" =>
        LET text == last.args[1]
            limit == char_limit(last.args[2])
            sent == last.result
            ends == UNION {text.ends[p] : p \in DOMAIN text.ends}
        IN  /\ SentLength(sent) <= limit
            /\ text.len <= limit => sent = [prefix |-> text.len, ellipsis |-> FALSE]
            /\ text.len > limit =>
                  \/ /\ ~sent.ellipsis
                     /\ sent.prefix - 1 \in ends
                     /\ 10 * (sent.prefix - 1) > 7 * limit
                  \/ /\ sent = [prefix |-> limit - 3, ellipsis |-> TRUE]
                     /\ \A i \in ends : 10 * i <= 7 * limit \/ i + 2 > limit - 10

ReplyWithinLimitWitness ==
    /\ last.op = "reply_to_tweet"
    /\ ~last.args[2]
    /\ last.args[1].len = STANDARD_CHAR_LIMIT + 1
    /\ last.args[1].ends["dot"] = {}
    /\ last.result.ellipsis
    /\ SentLength(last.result) = STANDARD_CHAR_LIMIT

\* C36: while the hourly counter is at the cap, two iterations of the main
\* loop in a row are at least MIN_CHECK_INTERVAL seconds apart.
Capped(e) == e.op = "poll" /\ e.outcome = "capped"

NoBusyPollingAtCap ==
    [][(Capped(last) /\ Capped(last')) =>
          last'.clock.now - last.clock.now >= MIN_CHECK_INTERVAL]_vars

\* C37: with the configuration as shipped, a cycle that passes the interval
\* gate and the hourly cap calls get_mentions.
ShippedConfigFetches ==
    (cfg = "shipped" /\ last.op = "poll" /\ last.outcome \notin {"capped", "done"}) =>
        Fetches(last)

\* C38: with the cutoff enabled, a fetched mention created before the
\* session start is added to the processed set with no gate test, no context
\* fetch, no backend request, no post and no pause, and no such mention ever
\* has a reply or reaches the pipeline.
BeforeSession(m) == TweetHasCreatedAt(m) /\ TweetCreatedAt(m) < session_start

SessionCutoff ==
    cfg = "cutoff_on" =>
        /\ (Processed /\ BeforeSession(M)) =>
              /\ last.outcome = "before_session"
              /\ processed = Pre.processed \cup {M}
              /\ last.calls = 0
              /\ last.posts = 0
              /\ ~last.throttled
              /\ ~last.paused
              /\ clk.now = Pre.now
              /\ allowed_authors = Pre.allowed_authors
              /\ hourly_reply_count = Pre.hourly_reply_count
        /\ \A m \in Mentions : BeforeSession(m) => posted[m] = 0
        /\ pc \in {"generate", "post"} => ~BeforeSession(cur.tweet)

SessionCutoffWitness ==
    /\ cfg = "cutoff_on"
    /\ Processed
    /\ BeforeSession(M)
    /\ M \notin Pre.processed
    /\ Pre.now - TweetCreatedAt(M) <= MaxAgeSeconds
    /\ M \in processed

\* C39: a mention left unprocessed by a failed attempt is, while the feed
\* keeps returning it and once the backend and the post succeed, eventually
\* replied to and in the processed set.
FailedAttempt ==
    /\ Processed
    /\ M = Retried
    /\ last.outcome \in {"generation_failed", "post_forbidden", "post_throttled",
                         "post_tweepy_error", "post_error"}
    /\ Retried \notin processed

RetryLiveness ==
    FailedAttempt ~> (posted[Retried] > 0 /\ Retried \in processed)

====
